---- MODULE Spec2Model ----
(***************************************************************************)
(* firefaith: a register-based virtual machine (src/src/vm.rs), its opcode *)
(* table (src/src/instruction.rs) and the REPL that embeds it              *)
(* (src/src/repl/mod.rs).                                                  *)
(*                                                                         *)
(* Number representations.  TLC's integers are 32 bits wide, so:           *)
(*  - a register (i32) is the integer itself;                              *)
(*  - remainder (u32) is the pair of its 16-bit halves [hi, lo];           *)
(*  - pc (usize) is the pair [hi, lo] too, lo its low 16 bits and hi the   *)
(*    two's-complement reading of the bits above them, so that hi < 0      *)
(*    stands for a usize near 2^64.  An offset into the program is the     *)
(*    integer itself while an instruction is decoded.                      *)
(***************************************************************************)
EXTENDS Integers, Sequences, FiniteSets, TLC

VARIABLES
    registers,        \* VM.registers : [i32; 32]
    pc,               \* VM.pc : usize
    program,          \* VM.program : Vec<u8>
    remainder,        \* VM.remainder : u32
    command_buffer,   \* REPL.command_buffer : Vec<String>
    at,               \* where the caller is: "idle", "run" (inside VM::run), "exited"
    is_done,          \* the local of VM::run
    called,           \* the entry point last called
    ret,              \* what the last execute_instruction returned
    decoded,          \* what the last decode_opcode returned
    run_start,        \* pc when VM::run was last called
    panicked,         \* "none", or the panic that ended the process
    overflow_checks   \* the build's overflow-checks setting (on in dev/test, off in release)

vars == <<registers, pc, program, remainder, command_buffer, at, is_done,
          called, ret, decoded, run_start, panicked, overflow_checks>>

engine == <<registers, pc, program, remainder>>

(***************************************************************************)
(* Bounds and input sets                                                   *)
(***************************************************************************)
MaxLen == 4
MaxPad == 1
MaxLines == 3

NumRegisters == 32
I32Max == 2147483647
I32Min == -I32Max - 1
Half == 65536

\* bytes the embedder appends one at a time: opcodes of every encoding
\* length (HLT, LOAD, ADD, DIV, MOV, JMP, JMPF), that double as register
\* indices and immediates, and 32: an ILLEGAL opcode and an index past the
\* register file
Bytes == {0, 1, 2, 5, 6, 7, 9, 32}

\* the values a test harness presets in registers 0 and 1 (get_test_vm)
Seeds == {I32Min, -7, -1, 0, 2, 10, I32Max}

\* the operand bytes of the instructions a test harness loads
Operands == {0, 1, 32}

\* the opcode bytes of the instructions a test harness loads
OpcodeBytes == 0..9 \cup {255}

(***************************************************************************)
(* instruction.rs                                                          *)
(***************************************************************************)
\* OpcodeFrom with the two relative jumps exchanged and 10 taken for HLT
OpcodeFromMisnumbered(v) ==
    CASE v = 0 -> "HLT"
      [] v = 1 -> "LOAD"
      [] v = 2 -> "ADD"
      [] v = 3 -> "SUB"
      [] v = 4 -> "MUL"
      [] v = 5 -> "DIV"
      [] v = 6 -> "MOV"
      [] v = 7 -> "JMP"
      [] v = 8 -> "JMPF"
      [] v = 9 -> "JMPB"
      [] v = 10 -> "HLT"
      [] OTHER -> "IGL"

OpcodeFrom(v) ==
    CASE v = 0 -> "HLT"
      [] v = 1 -> "LOAD"
      [] v = 2 -> "ADD"
      [] v = 3 -> "SUB"
      [] v = 4 -> "MUL"
      [] v = 5 -> "DIV"
      [] v = 6 -> "MOV"
      [] v = 7 -> "JMP"
      [] v = 8 -> "JMPB"
      [] v = 9 -> "JMPF"
      [] OTHER -> "IGL"

(***************************************************************************)
(* Host integer semantics                                                  *)
(***************************************************************************)
\* i32 + i32 leaves the i32 range
AddOverflows(x, y) == (y > 0 /\ x > I32Max - y) \/ (y < 0 /\ x < I32Min - y)

\* i32::wrapping_add
WrappingAdd(x, y) ==
    IF y > 0 /\ x > I32Max - y THEN (x - I32Max - 1) + (y - I32Max - 1)
    ELSE IF y < 0 /\ x < I32Min - y THEN (x + I32Max + 1) + (y + I32Max + 1)
    ELSE x + y

\* i32 - i32 leaves the i32 range
SubOverflows(x, y) == (y < 0 /\ x > I32Max + y) \/ (y > 0 /\ x < I32Min + y)

\* i32::wrapping_sub
WrappingSub(x, y) ==
    IF y < 0 /\ x > I32Max + y THEN (x - I32Max - 1) - (y + I32Max + 1)
    ELSE IF y > 0 /\ x < I32Min + y THEN (x + I32Max + 1) - (y - I32Max - 1)
    ELSE x - y

\* `as u32` of an i32: the same 32 bits read unsigned, as 16-bit halves
AsU32(x) == [hi |-> (x \div Half) % Half, lo |-> x % Half]

\* `as i32` of a u32: the same 32 bits read signed
AsI32(u) ==
    IF u.hi < Half \div 2 THEN u.hi * Half + u.lo ELSE (u.hi - Half) * Half + u.lo

\* p * q modulo 2^16 for 16-bit p and q, by the bytes of p
MulMod16(p, q) == ((((p \div 256) * q) % 256) * 256 + (p % 256) * q) % Half

\* u32::wrapping_mul: the low halves' full product plus the cross products
\* shifted by 16 bits
WrappingMulU32(u, v) ==
    LET t == (u.lo \div 256) * v.lo
        s == (u.lo % 256) * v.lo
        l == (t % 256) * 256 + (s % Half)
        h == (t \div 256) + (s \div Half) + (l \div Half)
    IN  [hi |-> (h + MulMod16(u.hi, v.lo) + MulMod16(u.lo, v.hi)) % Half,
         lo |-> l % Half]

\* i32::wrapping_mul
WrappingMul(x, y) == AsI32(WrappingMulU32(AsU32(x), AsU32(y)))

\* i32 / i32 for a divisor d > 0, truncating toward zero
TruncDivPos(n, d) ==
    IF n >= 0 \/ n % d = 0 THEN n \div d ELSE (n \div d) + 1

\* i32 / i32 where the host computes it: d # 0 and not (n = MIN, d = -1)
TruncDiv(n, d) ==
    IF d > 0 THEN TruncDivPos(n, d)
    ELSE IF d = I32Min THEN (IF n = I32Min THEN 1 ELSE 0)
    ELSE -TruncDivPos(n, -d)

\* i32 % i32: the remainder of the truncating division, with the dividend's sign
TruncRem(n, d) == n - TruncDiv(n, d) * d

\* i32 / i32 and i32 % i32 panic with "attempt to divide with overflow" in every build
DivOverflows(n, d) == n = I32Min /\ d = -1

\* i32 * i32 leaves the i32 range
MulOverflows(x, y) ==
    /\ x # 0
    /\ y # 0
    /\ \/ DivOverflows(x, y)
       \/ DivOverflows(y, x)
       \/ TruncDiv(WrappingMul(x, y), y) # x

\* `as usize` of an i32 (the cast sign-extends), and of an offset
Usize(x) == [hi |-> x \div Half, lo |-> x % Half]

\* usize::wrapping_add(u, v as usize) for an i32 v
UsizeAdd(u, v) ==
    LET l == u.lo + Usize(v).lo
    IN  [hi |-> u.hi + Usize(v).hi + (l \div Half), lo |-> l % Half]

\* usize::wrapping_sub(u, v as usize) for an i32 v
UsizeSub(u, v) ==
    LET l == u.lo - Usize(v).lo
    IN  [hi |-> u.hi - Usize(v).hi + (l \div Half), lo |-> l % Half]

\* usize >= n for a length n below 2^16
UsizeGE(u, n) == u.hi # 0 \/ u.lo >= n

\* the offset a usize below 2^16 holds
Offset(u) == u.lo

\* Vec indexing: program[p] does not panic
InBounds(prog, p) == p < Len(prog)

\* program[p], 0-based
ByteAt(prog, p) == prog[p + 1]

(***************************************************************************)
(* vm.rs: execute_instruction.  m is the VM [registers, pc, program,       *)
(* remainder]; the result is what the call leaves in the VM, what it       *)
(* returns and whether it panicked (a panic keeps what was written so far).*)
(***************************************************************************)
VM == [registers |-> registers, pc |-> pc, program |-> program, remainder |-> remainder]

\* VM::new
NewVM == [registers |-> [i \in 0..(NumRegisters - 1) |-> 0], pc |-> Usize(0),
          program |-> <<>>, remainder |-> AsU32(0)]

Panic(m, p, why) ==
    [registers |-> m.registers, pc |-> Usize(p), remainder |-> m.remainder,
     ret |-> FALSE, panic |-> why]

Return(regs, u, rem, r) ==
    [registers |-> regs, pc |-> u, remainder |-> rem, ret |-> r, panic |-> "none"]

\* registers[i] does not panic
RegisterOk(i) == i < NumRegisters

\* PcInvalid with > for >=
PcInvalidOffByOne(m) == m.pc.hi # 0 \/ m.pc.lo > Len(m.program)

\* the guard of execute_instruction: "Ensure PC is not invalid"
PcInvalid(m) == UsizeGE(m.pc, Len(m.program))

\* next_short with the two bytes in the other order
next_short_little_endian(prog, p) ==
    ((ByteAt(prog, p + 1) * 256) % Half) + ByteAt(prog, p)

\* VM::next_short: ((program[pc] as u16) << 8) | program[pc + 1] as u16; the
\* shifted byte has its low 8 bits clear, so the or is a sum
next_short(prog, p) ==
    ((ByteAt(prog, p) * 256) % Half) + ByteAt(prog, p + 1)

\* ExecLOAD clearing the remainder as it writes the register
ExecLOADClearsRemainder(m) ==
    LET p == Offset(m.pc) IN
    IF ~InBounds(m.program, p + 2) THEN Panic(m, p, "program_index") ELSE
    IF ~RegisterOk(ByteAt(m.program, p)) THEN Panic(m, p + 3, "register_index") ELSE
    Return([m.registers EXCEPT ![ByteAt(m.program, p)] =
                AsI32([hi |-> 0, lo |-> next_short(m.program, p + 1)])],
           Usize(p + 3), AsU32(0), TRUE)

\* LOAD: next_byte, next_short, then registers[register] = number
ExecLOAD(m) ==
    LET p == Offset(m.pc) IN
    IF ~InBounds(m.program, p) THEN Panic(m, p, "program_index") ELSE
    LET register == ByteAt(m.program, p) IN
    IF ~InBounds(m.program, p + 1) \/ ~InBounds(m.program, p + 2)
    THEN Panic(m, p + 1, "program_index") ELSE
    LET number == AsI32([hi |-> 0, lo |-> next_short(m.program, p + 1)]) IN
    IF ~RegisterOk(register) THEN Panic(m, p + 3, "register_index") ELSE
    Return([m.registers EXCEPT ![register] = number], Usize(p + 3), m.remainder, TRUE)

\* reg1 + reg2, reg1 - reg2, reg1 * reg2 leave the i32 range
Overflows(opcode, reg1, reg2) ==
    CASE opcode = "ADD" -> AddOverflows(reg1, reg2)
      [] opcode = "SUB" -> SubOverflows(reg1, reg2)
      [] opcode = "MUL" -> MulOverflows(reg1, reg2)

\* Wrapping with the two source operands exchanged
WrappingSwapped(opcode, reg1, reg2) ==
    CASE opcode = "ADD" -> WrappingAdd(reg2, reg1)
      [] opcode = "SUB" -> WrappingSub(reg2, reg1)
      [] opcode = "MUL" -> WrappingMul(reg2, reg1)

\* reg1 + reg2, reg1 - reg2, reg1 * reg2 where the build does not check overflow
Wrapping(opcode, reg1, reg2) ==
    CASE opcode = "ADD" -> WrappingAdd(reg1, reg2)
      [] opcode = "SUB" -> WrappingSub(reg1, reg2)
      [] opcode = "MUL" -> WrappingMul(reg1, reg2)

\* ADD, SUB, MUL: two source registers are read, the host operation is
\* applied (it panics on overflow when the build checks overflow, wraps
\* otherwise), then the destination byte is read and the register written
ExecArith(m, oc, opcode) ==
    LET p == Offset(m.pc) IN
    IF ~InBounds(m.program, p) THEN Panic(m, p, "program_index") ELSE
    IF ~RegisterOk(ByteAt(m.program, p)) THEN Panic(m, p + 1, "register_index") ELSE
    IF ~InBounds(m.program, p + 1) THEN Panic(m, p + 1, "program_index") ELSE
    IF ~RegisterOk(ByteAt(m.program, p + 1)) THEN Panic(m, p + 2, "register_index") ELSE
    LET reg1 == m.registers[ByteAt(m.program, p)]
        reg2 == m.registers[ByteAt(m.program, p + 1)]
    IN
    IF oc /\ Overflows(opcode, reg1, reg2) THEN Panic(m, p + 2, "overflow") ELSE
    IF ~InBounds(m.program, p + 2) THEN Panic(m, p + 2, "program_index") ELSE
    IF ~RegisterOk(ByteAt(m.program, p + 2)) THEN Panic(m, p + 3, "register_index") ELSE
    Return([m.registers EXCEPT ![ByteAt(m.program, p + 2)] = Wrapping(opcode, reg1, reg2)],
           Usize(p + 3), m.remainder, TRUE)

ExecADD(m, oc) == ExecArith(m, oc, "ADD")

ExecSUB(m, oc) == ExecArith(m, oc, "SUB")

ExecMUL(m, oc) == ExecArith(m, oc, "MUL")

\* the value DIV leaves in the remainder register: (reg1 % reg2) as u32
DivRemainder(reg1, reg2) == AsU32(TruncRem(reg1, reg2))

\* ExecDIV writing the remainder before the quotient
ExecDIVRemainderFirst(m) ==
    LET p == Offset(m.pc) IN
    IF ~InBounds(m.program, p) THEN Panic(m, p, "program_index") ELSE
    IF ~RegisterOk(ByteAt(m.program, p)) THEN Panic(m, p + 1, "register_index") ELSE
    IF ~InBounds(m.program, p + 1) THEN Panic(m, p + 1, "program_index") ELSE
    IF ~RegisterOk(ByteAt(m.program, p + 1)) THEN Panic(m, p + 2, "register_index") ELSE
    LET reg1 == m.registers[ByteAt(m.program, p)]
        reg2 == m.registers[ByteAt(m.program, p + 1)]
    IN
    IF reg2 = 0 THEN Panic(m, p + 2, "divide_by_zero") ELSE
    IF DivOverflows(reg1, reg2) THEN Panic(m, p + 2, "overflow") ELSE
    LET m2 == [m EXCEPT !.remainder = AsU32(TruncRem(reg1, reg2))] IN
    IF ~InBounds(m.program, p + 2) THEN Panic(m2, p + 2, "program_index") ELSE
    IF ~RegisterOk(ByteAt(m.program, p + 2)) THEN Panic(m2, p + 3, "register_index") ELSE
    Return([m.registers EXCEPT ![ByteAt(m.program, p + 2)] = TruncDiv(reg1, reg2)],
           Usize(p + 3), m2.remainder, TRUE)

\* DIV: reg1 / reg2 is computed before the destination byte is read; the
\* remainder is written last
ExecDIV(m) ==
    LET p == Offset(m.pc) IN
    IF ~InBounds(m.program, p) THEN Panic(m, p, "program_index") ELSE
    IF ~RegisterOk(ByteAt(m.program, p)) THEN Panic(m, p + 1, "register_index") ELSE
    IF ~InBounds(m.program, p + 1) THEN Panic(m, p + 1, "program_index") ELSE
    IF ~RegisterOk(ByteAt(m.program, p + 1)) THEN Panic(m, p + 2, "register_index") ELSE
    LET reg1 == m.registers[ByteAt(m.program, p)]
        reg2 == m.registers[ByteAt(m.program, p + 1)]
    IN
    IF reg2 = 0 THEN Panic(m, p + 2, "divide_by_zero") ELSE
    IF DivOverflows(reg1, reg2) THEN Panic(m, p + 2, "overflow") ELSE
    IF ~InBounds(m.program, p + 2) THEN Panic(m, p + 2, "program_index") ELSE
    IF ~RegisterOk(ByteAt(m.program, p + 2)) THEN Panic(m, p + 3, "register_index") ELSE
    Return([m.registers EXCEPT ![ByteAt(m.program, p + 2)] = TruncDiv(reg1, reg2)],
           Usize(p + 3), DivRemainder(reg1, reg2), TRUE)

\* ExecMOV reading a third operand byte, as the arithmetic opcodes do
ExecMOVThreeOperands(m) ==
    LET p == Offset(m.pc) IN
    IF ~InBounds(m.program, p + 2) THEN Panic(m, p + 2, "program_index") ELSE
    IF ~RegisterOk(ByteAt(m.program, p + 1)) THEN Panic(m, p + 2, "register_index") ELSE
    IF ~RegisterOk(ByteAt(m.program, p)) THEN Panic(m, p + 2, "register_index") ELSE
    Return([m.registers EXCEPT ![ByteAt(m.program, p)] =
                m.registers[ByteAt(m.program, p + 1)]],
           Usize(p + 3), m.remainder, TRUE)

\* ExecMOV taking the source first and the destination second
ExecMOVSourceFirst(m) ==
    LET p == Offset(m.pc) IN
    IF ~InBounds(m.program, p) THEN Panic(m, p, "program_index") ELSE
    IF ~InBounds(m.program, p + 1) THEN Panic(m, p + 1, "program_index") ELSE
    IF ~RegisterOk(ByteAt(m.program, p)) THEN Panic(m, p + 2, "register_index") ELSE
    IF ~RegisterOk(ByteAt(m.program, p + 1)) THEN Panic(m, p + 2, "register_index") ELSE
    Return([m.registers EXCEPT ![ByteAt(m.program, p + 1)] =
                m.registers[ByteAt(m.program, p)]],
           Usize(p + 2), m.remainder, TRUE)

\* MOV: the destination byte, then the source register, then the write
ExecMOV(m) ==
    LET p == Offset(m.pc) IN
    IF ~InBounds(m.program, p) THEN Panic(m, p, "program_index") ELSE
    IF ~InBounds(m.program, p + 1) THEN Panic(m, p + 1, "program_index") ELSE
    IF ~RegisterOk(ByteAt(m.program, p + 1)) THEN Panic(m, p + 2, "register_index") ELSE
    IF ~RegisterOk(ByteAt(m.program, p)) THEN Panic(m, p + 2, "register_index") ELSE
    Return([m.registers EXCEPT ![ByteAt(m.program, p)] =
                m.registers[ByteAt(m.program, p + 1)]],
           Usize(p + 2), m.remainder, TRUE)

\* the register a jump names, read through next_byte; q is the pc after it
JumpOperand(m) ==
    LET p == Offset(m.pc) IN
    IF ~InBounds(m.program, p) THEN Panic(m, p, "program_index") ELSE
    IF ~RegisterOk(ByteAt(m.program, p)) THEN Panic(m, p + 1, "register_index") ELSE
    Return(m.registers, Usize(p + 1), m.remainder, TRUE)

\* JMP: pc = target as usize
JmpTarget(q, target) == Usize(target)

\* JMPB: pc -= value as usize.  The subtraction underflows when the
\* unsigned value exceeds pc
JmpbUnderflows(q, value) == value < 0 \/ value > q

\* JmpbTarget stopping at offset 0
JmpbTargetSaturating(q, value) ==
    IF value > q THEN Usize(0) ELSE UsizeSub(Usize(q), value)

JmpbTarget(q, value) == UsizeSub(Usize(q), value)

\* JMPF: pc += value as usize.  The addition overflows when value is
\* negative (a usize near 2^64) and pc >= -value
JmpfOverflows(q, value) == value < 0 /\ q + value >= 0

\* JmpfTarget counted from the start of the jump instruction
JmpfTargetFromStart(q, value) == UsizeAdd(Usize(q - 2), value)

JmpfTarget(q, value) == UsizeAdd(Usize(q), value)

ExecJMP(m) ==
    LET o == JumpOperand(m) IN
    IF o.panic # "none" THEN o ELSE
    Return(m.registers,
           JmpTarget(Offset(o.pc), m.registers[ByteAt(m.program, Offset(m.pc))]), m.remainder, TRUE)

ExecJMPB(m, oc) ==
    LET o == JumpOperand(m) IN
    IF o.panic # "none" THEN o ELSE
    LET value == m.registers[ByteAt(m.program, Offset(m.pc))] IN
    IF oc /\ JmpbUnderflows(Offset(o.pc), value) THEN Panic(m, Offset(o.pc), "overflow") ELSE
    Return(m.registers, JmpbTarget(Offset(o.pc), value), m.remainder, TRUE)

ExecJMPF(m, oc) ==
    LET o == JumpOperand(m) IN
    IF o.panic # "none" THEN o ELSE
    LET value == m.registers[ByteAt(m.program, Offset(m.pc))] IN
    IF oc /\ JmpfOverflows(Offset(o.pc), value) THEN Panic(m, Offset(o.pc), "overflow") ELSE
    Return(m.registers, JmpfTarget(Offset(o.pc), value), m.remainder, TRUE)

\* ExecStop falling through to the final `true`
ExecStopFallsThrough(m) == Return(m.registers, m.pc, m.remainder, TRUE)

\* HLT and IGL: report and return false
ExecStop(m) == Return(m.registers, m.pc, m.remainder, FALSE)

\* VM::decode_opcode: the opcode of the byte at pc
decode_opcode(m) == OpcodeFrom(ByteAt(m.program, Offset(m.pc)))

\* the match of execute_instruction on decode_opcode(); m1 is the VM after
\* decode_opcode advanced pc
Dispatch(m, oc) ==
    IF UsizeGE(m.pc, Len(m.program)) THEN Panic(m, Offset(m.pc), "program_index") ELSE
    LET opcode == decode_opcode(m)
        m1 == [m EXCEPT !.pc = UsizeAdd(m.pc, 1)]
    IN  CASE opcode = "LOAD" -> ExecLOAD(m1)
          [] opcode = "HLT"  -> ExecStop(m1)
          [] opcode = "ADD"  -> ExecADD(m1, oc)
          [] opcode = "SUB"  -> ExecSUB(m1, oc)
          [] opcode = "MUL"  -> ExecMUL(m1, oc)
          [] opcode = "DIV"  -> ExecDIV(m1)
          [] opcode = "MOV"  -> ExecMOV(m1)
          [] opcode = "JMP"  -> ExecJMP(m1)
          [] opcode = "JMPB" -> ExecJMPB(m1, oc)
          [] opcode = "JMPF" -> ExecJMPF(m1, oc)
          [] opcode = "IGL"  -> ExecStop(m1)

\* execute_instruction refusing to go on behind a HLT or IGL byte
execute_instruction_latched(m, oc) ==
    IF PcInvalid(m) THEN Return(m.registers, m.pc, m.remainder, FALSE)
    ELSE IF Offset(m.pc) > 0 /\ OpcodeFrom(ByteAt(m.program, Offset(m.pc) - 1)) \in {"HLT", "IGL"}
    THEN Return(m.registers, m.pc, m.remainder, FALSE)
    ELSE Dispatch(m, oc)

execute_instruction(m, oc) ==
    IF PcInvalid(m) THEN Return(m.registers, m.pc, m.remainder, FALSE)
    ELSE Dispatch(m, oc)

\* add_byte inserting at the front
add_byte_front(prog, byte) == <<byte>> \o prog

\* VM::add_byte
add_byte(prog, byte) == Append(prog, byte)

(***************************************************************************)
(* The calls of an embedder                                                *)
(***************************************************************************)
Alive == panicked = "none"

\* what decode_opcode returned in a call of execute_instruction on m, if
\* the call came to decode and program[pc] did not panic
Decode(m) ==
    decoded' = IF PcInvalid(m) \/ UsizeGE(m.pc, Len(m.program)) THEN decoded
               ELSE decode_opcode(m)

\* the VM after a call of execute_instruction that ended as o
Execute(o) ==
    /\ registers' = o.registers
    /\ pc' = o.pc
    /\ remainder' = o.remainder
    /\ panicked' = o.panic
    /\ ret' = IF o.panic = "none" THEN o.ret ELSE ret

Init ==
    /\ registers = NewVM.registers
    /\ pc = NewVM.pc
    /\ program = NewVM.program
    /\ remainder = NewVM.remainder
    /\ command_buffer = <<>>
    /\ at = "idle"
    /\ is_done = FALSE
    /\ called = "new"
    /\ ret = FALSE
    /\ decoded = "none"
    /\ run_start = NewVM.pc
    /\ panicked = "none"
    /\ overflow_checks \in BOOLEAN

\* vm.add_byte(b) for a byte of `bytes`, on a program shorter than `limit`
AddByteUpTo(bytes, limit) ==
    /\ Alive
    /\ at = "idle"
    /\ Len(program) < limit
    /\ \E b \in bytes : program' = add_byte(program, b)
    /\ called' = "add_byte"
    /\ UNCHANGED <<registers, pc, remainder, command_buffer, at, is_done, ret,
                   decoded, run_start, panicked, overflow_checks>>

\* vm.add_byte(b)
AddByte == AddByteUpTo(Bytes, MaxLen)

\* vm.run_once()
RunOnce ==
    /\ Alive
    /\ at = "idle"
    /\ Execute(execute_instruction(VM, overflow_checks))
    /\ Decode(VM)
    /\ called' = "run_once"
    /\ UNCHANGED <<program, command_buffer, at, is_done, run_start, overflow_checks>>

\* vm.run() is entered: let mut is_done = false
RunCall ==
    /\ Alive
    /\ at = "idle"
    /\ at' = "run"
    /\ is_done' = FALSE
    /\ called' = "run"
    /\ run_start' = pc
    /\ UNCHANGED <<registers, pc, program, remainder, command_buffer, ret,
                   decoded, panicked, overflow_checks>>

\* one turn of the loop of vm.run(): while !is_done { is_done = execute_instruction() }
RunLoop ==
    /\ Alive
    /\ at = "run"
    /\ ~is_done
    /\ LET o == execute_instruction(VM, overflow_checks)
       IN  /\ Execute(o)
           /\ Decode(VM)
           /\ is_done' = IF o.panic = "none" THEN o.ret ELSE is_done
    /\ UNCHANGED <<program, command_buffer, at, called, run_start, overflow_checks>>

\* vm.run() returns
RunReturn ==
    /\ Alive
    /\ at = "run"
    /\ is_done
    /\ at' = "idle"
    /\ UNCHANGED <<registers, pc, program, remainder, command_buffer, is_done,
                   called, ret, decoded, run_start, panicked, overflow_checks>>

Next == AddByte \/ RunOnce \/ RunCall \/ RunLoop \/ RunReturn

Spec == Init /\ [][Next]_vars

(***************************************************************************)
(* The unit-test harness of vm.rs: a VM whose registers 0 and 1 are preset *)
(* (get_test_vm), holding one four-byte instruction (test_bytes) after     *)
(* some HLT bytes, then run_once() and run().                              *)
(***************************************************************************)
RECURSIVE Zeros(_)
Zeros(n) == IF n = 0 THEN <<>> ELSE <<0>> \o Zeros(n - 1)

UnitInit ==
    /\ \E r0 \in Seeds, r1 \in Seeds :
          registers = [NewVM.registers EXCEPT ![0] = r0, ![1] = r1]
    /\ \E n \in 0..MaxPad, op \in OpcodeBytes, a \in Operands, b \in Operands,
          c \in Operands :
          program = Zeros(n) \o <<op, a, b, c>>
    /\ pc = NewVM.pc
    /\ remainder = NewVM.remainder
    /\ command_buffer = <<>>
    /\ at = "idle"
    /\ is_done = FALSE
    /\ called = "new"
    /\ ret = FALSE
    /\ decoded = "none"
    /\ run_start = NewVM.pc
    /\ panicked = "none"
    /\ overflow_checks \in BOOLEAN

UnitNext == RunOnce \/ RunCall \/ RunLoop \/ RunReturn

SpecUnit == UnitInit /\ [][UnitNext]_vars

(***************************************************************************)
(* A harness over the whole encoding: every register of the file preset to *)
(* a value of its own, and a program of two instructions, DIV $0 $1 $2     *)
(* (which leaves a remainder) and then one instruction of any opcode byte, *)
(* any destination register and operand bytes up to 255.  The embedder     *)
(* steps, runs and appends HLT bytes.                                      *)
(***************************************************************************)
\* registers[i] = k * (i + 1) for these k
Scales == {-3, 7}

\* the first operand byte: every register index and the first one past the
\* file for LOAD and MOV, register 0 for the other opcodes
FirstOperands(op) == IF op \in {1, 6} THEN 0..NumRegisters ELSE {0}

\* the second and the third operand byte; HLT and IGL read none
SecondOperands(op) == IF op \in 1..9 THEN {0, 1, 32, 255} ELSE {0}

ThirdOperands(op) == IF op \in 1..9 THEN {0, 255} ELSE {0}

\* the length up to which the embedder appends to the loaded program
MaxAppended == 9

FullInit ==
    /\ \E k \in Scales : registers = [i \in 0..(NumRegisters - 1) |-> k * (i + 1)]
    /\ \E op \in 0..255 :
          \E a \in FirstOperands(op), b \in SecondOperands(op), c \in ThirdOperands(op) :
             program = <<5, 0, 1, 2>> \o <<op, a, b, c>>
    /\ pc = NewVM.pc
    /\ remainder = NewVM.remainder
    /\ command_buffer = <<>>
    /\ at = "idle"
    /\ is_done = FALSE
    /\ called = "new"
    /\ ret = FALSE
    /\ decoded = "none"
    /\ run_start = NewVM.pc
    /\ panicked = "none"
    /\ overflow_checks \in BOOLEAN

\* vm.add_byte(0) after the program was loaded
AddHalt == AddByteUpTo({0}, MaxAppended)

FullNext == AddHalt \/ RunOnce \/ RunCall \/ RunLoop \/ RunReturn

SpecFull == FullInit /\ [][FullNext]_vars

(***************************************************************************)
(* repl/mod.rs.  A line is the sequence of its characters.                 *)
(***************************************************************************)
QuitLine == <<"q", "u", "i", "t", "(", ")">>
HistoryLine == <<"h", "i", "s", "t", "o", "r", "y", "(", ")">>
ProgramLine == <<"p", "r", "o", "g", "r", "a", "m", "(", ")">>
RegistersLine == <<"r", "e", "g", "i", "s", "t", "e", "r", "s", "(", ")">>

\* the lines the operator types
TypedLines ==
    { QuitLine, HistoryLine, ProgramLine, RegistersLine,
      <<"0", "0">>,                                \* HLT
      <<" ", "f", "F", " ">>,                      \* IGL, in blanks
      <<"9", " ", "0", " ", "0", "0">>,            \* JMPF $0, then HLT
      <<"0", "6", " ", "0", "0", " ", "0", "1", " ", "0", "0">>, \* MOV $0 $1, HLT
      <<"0", "1", " ", "0", "0">>,                 \* LOAD $0 and no immediate
      <<>>,                                        \* an empty line
      <<"z", "z">>,                                \* no hex digits
      <<"0", "0", " ", "0", "g">>,                 \* a byte, then no hex digits
      <<"0", "0", " ", " ", "0", "0">>,            \* two blanks between bytes
      <<"1", "0", "0">> }                          \* more than a u8

IsWhitespace(c) == c \in {" ", "\t", "\n", "\r"}

RECURSIVE TrimStart(_)
TrimStart(line) ==
    IF line # <<>> /\ IsWhitespace(Head(line)) THEN TrimStart(Tail(line)) ELSE line

RECURSIVE TrimEnd(_)
TrimEnd(line) ==
    IF line # <<>> /\ IsWhitespace(line[Len(line)])
    THEN TrimEnd(SubSeq(line, 1, Len(line) - 1))
    ELSE line

\* str::trim
Trim(line) == TrimEnd(TrimStart(line))

RECURSIVE SplitAcc(_, _, _)
\* str::split(" "): the pieces between single blanks, empty pieces included
SplitAcc(line, piece, pieces) ==
    IF line = <<>> THEN Append(pieces, piece)
    ELSE IF Head(line) = " " THEN SplitAcc(Tail(line), <<>>, Append(pieces, piece))
    ELSE SplitAcc(Tail(line), Append(piece, Head(line)), pieces)

Split(line) == SplitAcc(line, <<>>, <<>>)

HexDigits == <<"0", "1", "2", "3", "4", "5", "6", "7", "8", "9",
               "a", "b", "c", "d", "e", "f">>

UpperHexDigits == <<"A", "B", "C", "D", "E", "F">>

\* char::to_digit(16): the digit's value, or -1
ToDigit(c) ==
    IF \E i \in 1..16 : HexDigits[i] = c
    THEN (CHOOSE i \in 1..16 : HexDigits[i] = c) - 1
    ELSE IF \E i \in 1..6 : UpperHexDigits[i] = c
    THEN (CHOOSE i \in 1..6 : UpperHexDigits[i] = c) + 9
    ELSE -1

RECURSIVE FromStrRadixAcc(_, _)
\* the digits of u8::from_str_radix(_, 16) after the value so far
FromStrRadixAcc(digits, value) ==
    IF digits = <<>> THEN [ok |-> TRUE, value |-> value]
    ELSE IF ToDigit(Head(digits)) < 0 THEN [ok |-> FALSE, value |-> 0]
    ELSE IF value * 16 + ToDigit(Head(digits)) > 255 THEN [ok |-> FALSE, value |-> 0]
    ELSE FromStrRadixAcc(Tail(digits), value * 16 + ToDigit(Head(digits)))

\* u8::from_str_radix(hex_string, 16) of an unsigned string
FromStrRadix(hex_string) ==
    IF hex_string = <<>> THEN [ok |-> FALSE, value |-> 0]
    ELSE FromStrRadixAcc(hex_string, 0)

RECURSIVE ParseHexAcc(_, _)
ParseHexAcc(split, results) ==
    IF split = <<>> THEN [ok |-> TRUE, bytes |-> results]
    ELSE IF ~FromStrRadix(Head(split)).ok THEN [ok |-> FALSE, bytes |-> <<>>]
    ELSE ParseHexAcc(Tail(split), Append(results, FromStrRadix(Head(split)).value))

\* REPL::parse_hex
parse_hex(i) == ParseHexAcc(Split(i), <<>>)

RECURSIVE AddBytes(_, _)
\* for byte in bytes { self.vm.add_byte(byte) }
AddBytes(prog, bytes) ==
    IF bytes = <<>> THEN prog ELSE AddBytes(add_byte(prog, Head(bytes)), Tail(bytes))

Commands == {QuitLine, HistoryLine, ProgramLine, RegistersLine}

\* the line read and trimmed, then pushed on command_buffer
ReadLine(buffer) ==
    /\ Alive
    /\ at = "idle"
    /\ Len(command_buffer) < MaxLines
    /\ \E typed \in TypedLines : buffer = Trim(typed)
    /\ command_buffer' = Append(command_buffer, buffer)

\* "quit()": std::process::exit(0)
ReplQuit ==
    /\ ReadLine(QuitLine)
    /\ at' = "exited"
    /\ UNCHANGED <<registers, pc, program, remainder, is_done, called, ret,
                   decoded, run_start, panicked, overflow_checks>>

\* "history()": prints command_buffer
ReplHistory ==
    /\ ReadLine(HistoryLine)
    /\ UNCHANGED <<registers, pc, program, remainder, at, is_done, called, ret,
                   decoded, run_start, panicked, overflow_checks>>

\* ReplProgram falling through to the default arm's run_once
ReplProgramSteps ==
    /\ ReadLine(ProgramLine)
    /\ Execute(execute_instruction(VM, overflow_checks))
    /\ Decode(VM)
    /\ called' = "run_once"
    /\ UNCHANGED <<program, at, is_done, run_start, overflow_checks>>

\* "program()": prints vm.program
ReplProgram ==
    /\ ReadLine(ProgramLine)
    /\ UNCHANGED <<registers, pc, program, remainder, at, is_done, called, ret,
                   decoded, run_start, panicked, overflow_checks>>

\* "registers()": prints vm.registers
ReplRegisters ==
    /\ ReadLine(RegistersLine)
    /\ UNCHANGED <<registers, pc, program, remainder, at, is_done, called, ret,
                   decoded, run_start, panicked, overflow_checks>>

\* the VM program after the default arm's match on parse_hex(buffer)
Fed(prog, results) == IF results.ok THEN AddBytes(prog, results.bytes) ELSE prog

\* ReplDefault stepping twice
ReplDefaultStepsTwice ==
    \E typed \in TypedLines :
        /\ Trim(typed) \notin Commands
        /\ ReadLine(Trim(typed))
        /\ program' = Fed(program, parse_hex(Trim(typed)))
        /\ LET m1 == [VM EXCEPT !.program = program']
               o1 == execute_instruction(m1, overflow_checks)
               m2 == [registers |-> o1.registers, pc |-> o1.pc, program |-> program',
                      remainder |-> o1.remainder]
           IN  /\ Execute(IF o1.panic # "none" THEN o1
                          ELSE execute_instruction(m2, overflow_checks))
               /\ Decode(m1)
        /\ called' = "run_once"
        /\ UNCHANGED <<at, is_done, run_start, overflow_checks>>

\* the default arm: parse_hex, add_byte for each byte, then vm.run_once()
ReplDefault ==
    \E typed \in TypedLines :
        /\ Trim(typed) \notin Commands
        /\ ReadLine(Trim(typed))
        /\ program' = Fed(program, parse_hex(Trim(typed)))
        /\ Execute(execute_instruction([VM EXCEPT !.program = program'],
                                       overflow_checks))
        /\ Decode([VM EXCEPT !.program = program'])
        /\ called' = "run_once"
        /\ UNCHANGED <<at, is_done, run_start, overflow_checks>>

ReplNext == ReplQuit \/ ReplHistory \/ ReplProgram \/ ReplRegisters \/ ReplDefault

SpecRepl == Init /\ [][ReplNext]_vars

(***************************************************************************)
(* Claims                                                                  *)
(***************************************************************************)
\* this step is one call of execute_instruction, from run_once or from run
Stepped ==
    \/ at = "idle" /\ at' = "idle" /\ called' = "run_once"
    \/ at = "run" /\ ~is_done /\ at' = "run"

\* C1: VM::run returns exactly when a call of execute_instruction returned
\* false: whenever run has returned, the call it made last returned false.
C1_RunReturnsOnStop == (called = "run" /\ at = "idle") => ret = FALSE

RECURSIVE StraightLineToHalt(_, _)
\* from offset o on, prog is complete LOAD, ADD, SUB, MUL and MOV
\* instructions on registers of the file, then one final HLT
StraightLineToHalt(prog, o) ==
    IF o >= Len(prog) THEN FALSE
    ELSE IF o = Len(prog) - 1 THEN prog[o + 1] = 0
    ELSE IF prog[o + 1] = 1
    THEN o + 4 < Len(prog) /\ prog[o + 2] < NumRegisters /\ StraightLineToHalt(prog, o + 4)
    ELSE IF prog[o + 1] \in {2, 3, 4}
    THEN /\ o + 4 < Len(prog)
         /\ \A k \in 2..4 : prog[o + k] < NumRegisters
         /\ StraightLineToHalt(prog, o + 4)
    ELSE IF prog[o + 1] = 6
    THEN /\ o + 3 < Len(prog)
         /\ \A k \in 2..3 : prog[o + k] < NumRegisters
         /\ StraightLineToHalt(prog, o + 3)
    ELSE FALSE

\* C2: a run() started at pc = 0 on a program of complete instructions
\* that ends in a HLT it reaches returns with pc one past that HLT.
C2_RunEndsPastHalt ==
    (/\ called = "run"
     /\ at = "idle"
     /\ run_start = Usize(0)
     /\ StraightLineToHalt(program, 0))
    => pc = Usize(Len(program))

\* C3: no fetch of execute_instruction indexes the program at or past its
\* length.
C3_NoReadPastEnd == panicked # "program_index"

\* C4: a call of execute_instruction with pc >= program.len() returns
\* false and leaves registers, remainder, pc and program as they were.
C4_StepPastEnd ==
    [][(Stepped /\ UsizeGE(pc, Len(program)))
       => (ret' = FALSE /\ panicked' = "none" /\ UNCHANGED engine)]_vars

\* a call has returned false with pc strictly past the end of the program
C4_Witness ==
    /\ called = "run_once"
    /\ ret = FALSE
    /\ Alive
    /\ pc.hi = 0
    /\ pc.lo > Len(program)

\* the REPL has just read a line that is no command and does not parse
BadHexLineRead ==
    /\ Len(command_buffer') = Len(command_buffer) + 1
    /\ command_buffer'[Len(command_buffer')] \notin Commands
    /\ ~parse_hex(command_buffer'[Len(command_buffer')]).ok

\* C5: a line that is no command and holds a token that is not hex leaves
\* the program, pc, the registers and the remainder as they were.
C5_BadLineLeavesEngine == [][BadHexLineRead => UNCHANGED engine]_vars

\* this step decodes the byte at offset pc.lo of the program
Decodes == Stepped /\ ~UsizeGE(pc, Len(program))

\* this step decodes jump `byte` with its operand byte, a register of the
\* file holding a value >= 0
JumpsBy(byte) ==
    /\ Decodes
    /\ program[pc.lo + 1] = byte
    /\ pc.lo + 1 < Len(program)
    /\ program[pc.lo + 2] < NumRegisters
    /\ registers[program[pc.lo + 2]] >= 0

\* C6: a jump at offset p on a register holding v >= 0 leaves pc = v (JMP),
\* pc = p + 2 + v (JMPF), pc = p + 2 - v (JMPB, when v <= p + 2), changes
\* no register and not the remainder, and returns true.
C6_JumpTargets ==
    [][(JumpsBy(7) \/ JumpsBy(8) \/ JumpsBy(9)) =>
        LET p == pc.lo
            v == registers[program[pc.lo + 2]]
        IN  /\ JumpsBy(7) => pc' = Usize(v)
            /\ JumpsBy(9) => pc' = UsizeAdd(Usize(p + 2), v)
            /\ (JumpsBy(8) /\ v <= p + 2) => pc' = Usize(p + 2 - v)
            /\ (JumpsBy(8) => v <= p + 2) =>
                  /\ panicked' = "none"
                  /\ ret' = TRUE
                  /\ registers' = registers
                  /\ remainder' = remainder]_vars

\* JMPF $0 at offset 0 with registers[0] = 10 has left pc = 12
C6_Witness ==
    /\ called = "run_once"
    /\ ret = TRUE
    /\ Alive
    /\ program[1] = 9
    /\ program[2] = 0
    /\ registers[0] = 10
    /\ pc = [hi |-> 0, lo |-> 12]

\* C7: a completed instruction that is no jump and started at offset p
\* leaves pc = p + 1 (HLT, IGL), p + 4 (LOAD, ADD, SUB, MUL, DIV) or p + 3
\* (MOV).
C7_PcPastInstruction ==
    [][(Decodes /\ panicked' = "none") =>
        LET p == pc.lo
            byte == program[pc.lo + 1]
        IN  /\ (byte = 0 \/ byte >= 10) => pc' = [hi |-> 0, lo |-> p + 1]
            /\ byte \in 1..5 => pc' = [hi |-> 0, lo |-> p + 4]
            /\ byte = 6 => pc' = [hi |-> 0, lo |-> p + 3]]_vars

\* MOV $0 $1 at offset 1, after one HLT, has left pc = 4
C7_Witness ==
    /\ called = "run_once"
    /\ ret = TRUE
    /\ Alive
    /\ SubSeq(program, 1, 4) = <<0, 6, 0, 1>>
    /\ pc = [hi |-> 0, lo |-> 4]

\* C8: a call with pc < program.len() returns false exactly when the byte
\* at pc is 0 or at least 10; it then consumes that byte alone and changes
\* no register and not the remainder.  Every other call that completes
\* returns true.
C8_StopSignal ==
    [][Decodes =>
        IF program[pc.lo + 1] = 0 \/ program[pc.lo + 1] >= 10
        THEN /\ panicked' = "none"
             /\ ret' = FALSE
             /\ pc' = [hi |-> 0, lo |-> pc.lo + 1]
             /\ registers' = registers
             /\ remainder' = remainder
        ELSE panicked' = "none" => ret' = TRUE]_vars

\* the ILLEGAL byte 32 at offset 0 has been executed, more bytes following
C8_Witness ==
    /\ called = "run_once"
    /\ ret = FALSE
    /\ Alive
    /\ Len(program) > 1
    /\ program[1] = 32
    /\ pc = [hi |-> 0, lo |-> 1]

\* this step decodes `byte` with three operand bytes, all registers of the file
ThreeRegisters(byte) ==
    /\ Decodes
    /\ program[pc.lo + 1] = byte
    /\ pc.lo + 3 < Len(program)
    /\ \A k \in 2..4 : program[pc.lo + k] < NumRegisters

\* C9: ADD, SUB and MUL whose result fits an i32 write
\* registers[a] op registers[b], of the values before the step, to
\* registers[c], and change no other register, not the remainder and not
\* the program.
C9_Arithmetic ==
    [][\A byte \in {2, 3, 4} :
        LET x == registers[program[pc.lo + 2]]
            y == registers[program[pc.lo + 3]]
            c == program[pc.lo + 4]
        IN  (ThreeRegisters(byte) /\ ~Overflows(OpcodeFrom(byte), x, y)) =>
                /\ panicked' = "none"
                /\ registers' = [registers EXCEPT ![c] =
                       CASE byte = 2 -> x + y
                         [] byte = 3 -> x - y
                         [] byte = 4 -> x * y]
                /\ remainder' = remainder
                /\ program' = program]_vars

\* SUB $0 $1 $0 with registers[0] = 10 and registers[1] = 2 has left 8 in
\* registers[0]
C9_Witness ==
    /\ called = "run_once"
    /\ ret = TRUE
    /\ program = <<3, 0, 1, 0>>
    /\ registers[0] = 8
    /\ registers[1] = 2
    /\ pc = [hi |-> 0, lo |-> 4]

\* C10: a completed DIV on a divisor # 0 writes the quotient q to
\* registers[c] and leaves in the remainder register a value r, of the
\* dividend's sign and smaller than the divisor, with
\* q * registers[b] + r = registers[a].
C10_DivIdentity ==
    [][(ThreeRegisters(5) /\ registers[program[pc.lo + 3]] # 0 /\ panicked' = "none") =>
        LET n == registers[program[pc.lo + 2]]
            d == registers[program[pc.lo + 3]]
            q == registers'[program[pc.lo + 4]]
        IN  /\ remainder'.hi < Half \div 2
            /\ LET r == remainder'.hi * Half + remainder'.lo
               IN  /\ q * d + r = n
                   /\ IF d > 0 THEN r < d ELSE -r > d
                   /\ r = 0 \/ n > 0]_vars

\* C11: LOAD R hi lo with R in 0..31 leaves hi * 256 + lo, a value in
\* 0..65535, in registers[R] and changes no other register and not the
\* remainder.
C11_LoadRoundTrip ==
    [][(/\ Decodes
        /\ program[pc.lo + 1] = 1
        /\ pc.lo + 3 < Len(program)
        /\ program[pc.lo + 2] < NumRegisters) =>
        LET R == program[pc.lo + 2]
            hi == program[pc.lo + 3]
            lo == program[pc.lo + 4]
        IN  /\ panicked' = "none"
            /\ registers' = [registers EXCEPT ![R] = hi * 256 + lo]
            /\ registers'[R] \in 0..65535
            /\ remainder' = remainder]_vars

\* LOAD $31 #65535 has run after a DIV that left a remainder
C11_Witness ==
    /\ called = "run_once"
    /\ ret = TRUE
    /\ SubSeq(program, 5, 8) = <<1, 31, 255, 255>>
    /\ registers[31] = 65535
    /\ remainder # AsU32(0)
    /\ pc = [hi |-> 0, lo |-> 8]

\* C12: MOV d s with d and s in 0..31 sets registers[d] to the value
\* registers[s] held and leaves every other register, registers[s] among
\* them, and the remainder unchanged.
C12_MoveCopies ==
    [][(/\ Decodes
        /\ program[pc.lo + 1] = 6
        /\ pc.lo + 2 < Len(program)
        /\ program[pc.lo + 2] < NumRegisters
        /\ program[pc.lo + 3] < NumRegisters) =>
        LET d == program[pc.lo + 2]
            s == program[pc.lo + 3]
        IN  /\ panicked' = "none"
            /\ registers' = [registers EXCEPT ![d] = registers[s]]
            /\ registers'[s] = registers[s]
            /\ remainder' = remainder]_vars

\* MOV $31 $1 has run: both registers hold what registers[1] held
C12_Witness ==
    /\ called = "run_once"
    /\ ret = TRUE
    /\ SubSeq(program, 5, 7) = <<6, 31, 1>>
    /\ registers[1] = 14
    /\ registers[31] = 14
    /\ registers[30] = 217
    /\ pc = [hi |-> 0, lo |-> 7]

\* C13: decode_opcode maps the bytes 0..9 to HLT, LOAD, ADD, SUB, MUL, DIV,
\* MOV, JMP, JMPB, JMPF in that order and every byte in 10..255 to IGL.
C13_DecodeTable ==
    [][Decodes =>
        LET v == program[pc.lo + 1]
            Named == <<"HLT", "LOAD", "ADD", "SUB", "MUL", "DIV", "MOV", "JMP",
                       "JMPB", "JMPF">>
        IN  /\ v \in 0..9 => decoded' = Named[v + 1]
            /\ v \in 10..255 => decoded' = "IGL"]_vars

\* the byte 10, the first past the named opcodes, has been decoded as IGL
C13_Witness ==
    /\ called = "run_once"
    /\ decoded = "IGL"
    /\ ret = FALSE
    /\ program[5] = 10
    /\ pc = [hi |-> 0, lo |-> 5]

\* C14: the program only grows at its end: across every step the old
\* program is a prefix of the new one; add_byte appends exactly one byte and
\* changes neither pc, the registers nor the remainder; run_once and run
\* leave the program as it is.
C14_AppendOnly ==
    [][/\ Len(program) <= Len(program')
       /\ SubSeq(program', 1, Len(program)) = program
       /\ (at = "idle" /\ called' = "add_byte") =>
             /\ \E b \in 0..255 : program' = program \o <<b>>
             /\ UNCHANGED <<pc, registers, remainder>>
       /\ Stepped => program' = program]_vars

\* a byte has been appended behind a MOV that had already been executed
C14_Witness ==
    /\ called = "add_byte"
    /\ program = <<6, 0, 0, 9>>
    /\ pc = [hi |-> 0, lo |-> 3]

\* C15: the remainder is 0 at the start, and every step that is not the
\* execution of a DIV (any other instruction, a call past the end of the
\* program, add_byte, the entry to and the return from run) leaves it as it
\* is.
C15_RemainderOnlyByDiv ==
    /\ remainder = [hi |-> 0, lo |-> 0]
    /\ [][~(Decodes /\ program[pc.lo + 1] = 5) => remainder' = remainder]_vars

\* the remainder 7 of a DIV has outlived a LOAD and then an add_byte
C15_Witness ==
    /\ called = "add_byte"
    /\ decoded = "LOAD"
    /\ Len(program) = 9
    /\ pc = [hi |-> 0, lo |-> 8]
    /\ remainder = [hi |-> 0, lo |-> 7]

\* the REPL has just read one of the lines program(), registers(), history()
InspectionRead ==
    /\ Len(command_buffer') = Len(command_buffer) + 1
    /\ command_buffer'[Len(command_buffer')] \in {ProgramLine, RegistersLine, HistoryLine}

\* C16: handling program(), registers() or history() leaves the program,
\* pc, the registers and the remainder unchanged and calls neither
\* run_once nor decode_opcode.
C16_InspectionIsPure ==
    [][InspectionRead =>
        /\ UNCHANGED engine
        /\ UNCHANGED <<called, ret, decoded, panicked>>]_vars

\* program() has been handled while a HLT was pending behind a JMPF
C16_Witness ==
    /\ Len(command_buffer) >= 2
    /\ command_buffer[Len(command_buffer)] = ProgramLine
    /\ called = "run_once"
    /\ program = <<9, 0, 0>>
    /\ pc = [hi |-> 0, lo |-> 2]

\* this step decodes an instruction one of whose register operands is a
\* byte >= 32
BadRegisterNamed ==
    /\ Decodes
    /\ LET v == program[pc.lo + 1]
           bad(k) == pc.lo + k < Len(program) /\ program[pc.lo + 1 + k] >= NumRegisters
       IN  \/ v \in {1, 7, 8, 9} /\ bad(1)
           \/ v = 6 /\ (bad(1) \/ bad(2))
           \/ v \in 2..5 /\ (bad(1) \/ bad(2) \/ bad(3))

\* this step decodes a DIV whose divisor register holds 0
DividesByZero ==
    /\ Decodes
    /\ program[pc.lo + 1] = 5
    /\ pc.lo + 2 < Len(program)
    /\ program[pc.lo + 2] < NumRegisters
    /\ program[pc.lo + 3] < NumRegisters
    /\ registers[program[pc.lo + 3]] = 0

\* C17: an instruction naming a register index >= 32, and a DIV by a
\* register holding 0, end in a panic, and the step has written no
\* register and not the remainder.
C17_FaultsTrap ==
    [][(BadRegisterNamed \/ DividesByZero) =>
        /\ panicked' # "none"
        /\ registers' = registers
        /\ remainder' = remainder]_vars

\* DIV $0 $1 $32 with registers[0] = 10 and registers[1] = -7 has
\* panicked on the destination, the remainder still 0
C17_Witness ==
    /\ panicked = "register_index"
    /\ program = <<5, 0, 1, 32>>
    /\ registers[0] = 10
    /\ registers[1] = -7
    /\ remainder = [hi |-> 0, lo |-> 0]

\* this step decodes JMPB on a register of the file whose value v exceeds
\* the pc behind the jump's two bytes
JumpsBackTooFar ==
    /\ Decodes
    /\ program[pc.lo + 1] = 8
    /\ pc.lo + 1 < Len(program)
    /\ program[pc.lo + 2] < NumRegisters
    /\ registers[program[pc.lo + 2]] > pc.lo + 2

\* C18 as claimed: a JMPB by more than the pc does not panic and leaves
\* pc = (pc - value) modulo the word size.
C18_WrapsInEveryBuild ==
    [][JumpsBackTooFar =>
        /\ panicked' = "none"
        /\ pc' = Usize(pc.lo + 2 - registers[program[pc.lo + 2]])]_vars

\* C18 amended: in a build without overflow checks a JMPB by more than
\* the pc does not panic and leaves pc = (pc - value) modulo the word
\* size, which is past the end of the program, and the call after it
\* returns false and changes nothing; in a build with overflow checks the
\* JMPB panics, having written no register and not the remainder.
C18_WrapsUnchecked ==
    [][/\ JumpsBackTooFar =>
            IF overflow_checks
            THEN /\ panicked' = "overflow"
                 /\ registers' = registers
                 /\ remainder' = remainder
            ELSE /\ panicked' = "none"
                 /\ ret' = TRUE
                 /\ pc' = Usize(pc.lo + 2 - registers[program[pc.lo + 2]])
                 /\ pc'.hi < 0
                 /\ registers' = registers
                 /\ remainder' = remainder
       /\ (Stepped /\ pc.hi < 0) =>
            /\ panicked' = "none"
            /\ ret' = FALSE
            /\ UNCHANGED engine]_vars

\* JMPB $0 at offset 0 with registers[0] = 10 has wrapped pc to 2^64 - 8,
\* and the call after it has returned false
C18_Witness ==
    /\ ~overflow_checks
    /\ called = "run_once"
    /\ ret = FALSE
    /\ Alive
    /\ program[1] = 8
    /\ program[2] = 0
    /\ registers[0] = 10
    /\ pc = [hi |-> -1, lo |-> 65528]

\* the last call returned false on the HLT or IGL byte right before pc,
\* and more bytes follow
AfterStop ==
    /\ ret = FALSE
    /\ pc.hi = 0
    /\ pc.lo >= 1
    /\ pc.lo < Len(program)
    /\ program[pc.lo] = 0 \/ program[pc.lo] >= 10

\* C19: the call after one that returned false on HLT or IGL at offset p
\* executes the instruction at offset p + 1: a HLT or IGL there is
\* consumed and stops again, any other instruction that completes returns
\* true, a LOAD writes its register, a MOV copies, an ADD adds, a JMP
\* jumps.
C19_NoHaltLatch ==
    [][(Stepped /\ AfterStop) =>
        LET p == pc.lo
            v == program[pc.lo + 1]
            has(k) == pc.lo + k < Len(program)
            reg(k) == program[pc.lo + 1 + k]
            ok(k) == has(k) /\ reg(k) < NumRegisters
        IN  /\ (v = 0 \/ v >= 10) =>
                  /\ panicked' = "none"
                  /\ ret' = FALSE
                  /\ pc' = [hi |-> 0, lo |-> p + 1]
            /\ (v \in 1..9 /\ panicked' = "none") => ret' = TRUE
            /\ (v = 1 /\ ok(1) /\ has(3)) =>
                  /\ panicked' = "none"
                  /\ registers' = [registers EXCEPT ![reg(1)] = reg(2) * 256 + reg(3)]
                  /\ pc' = [hi |-> 0, lo |-> p + 4]
            /\ (v = 6 /\ ok(1) /\ ok(2)) =>
                  /\ panicked' = "none"
                  /\ registers' = [registers EXCEPT ![reg(1)] = registers[reg(2)]]
                  /\ pc' = [hi |-> 0, lo |-> p + 3]
            /\ (v = 2 /\ ok(1) /\ ok(2) /\ ok(3)
                   /\ ~AddOverflows(registers[reg(1)], registers[reg(2)])) =>
                  /\ panicked' = "none"
                  /\ registers' = [registers EXCEPT ![reg(3)] =
                                       registers[reg(1)] + registers[reg(2)]]
                  /\ pc' = [hi |-> 0, lo |-> p + 4]
            /\ (v = 7 /\ ok(1)) =>
                  /\ panicked' = "none"
                  /\ pc' = Usize(registers[reg(1)])]_vars

\* behind the HLT at offset 0, LOAD $0 #288 at offset 1 has been executed
C19_Witness ==
    /\ called = "run_once"
    /\ ret = TRUE
    /\ program = <<0, 1, 0, 1, 32>>
    /\ registers[0] = 288
    /\ pc = [hi |-> 0, lo |-> 5]

\* the bytes the lines of TypedLines that are no commands stand for; none
\* when a piece of the line is no hex byte
Entered(line) ==
    CASE line = <<"0", "0">> -> <<0>>
      [] line = <<"f", "F">> -> <<255>>
      [] line = <<"9", " ", "0", " ", "0", "0">> -> <<9, 0, 0>>
      [] line = <<"0", "6", " ", "0", "0", " ", "0", "1", " ", "0", "0">> -> <<6, 0, 1, 0>>
      [] line = <<"0", "1", " ", "0", "0">> -> <<1, 0>>
      [] OTHER -> <<>>

\* the REPL has just read a line that is no command
NonCommandRead ==
    /\ Len(command_buffer') = Len(command_buffer) + 1
    /\ command_buffer'[Len(command_buffer')] \notin Commands

\* C20: a line that is no command appends all its bytes to the program
\* and then makes one call of execute_instruction: nothing is executed
\* when pc is at the end, and otherwise the one instruction at pc is, so
\* that the HLT behind the MOV of one line stays pending.
C20_OneStepPerLine ==
    [][NonCommandRead =>
        LET line == command_buffer'[Len(command_buffer')]
            p == pc.lo
            P == program'
        IN  /\ P = program \o Entered(line)
            /\ called' = "run_once"
            /\ IF p >= Len(P)
               THEN /\ ret' = FALSE
                    /\ UNCHANGED <<pc, registers, remainder>>
               ELSE /\ (P[p + 1] = 0 \/ P[p + 1] >= 10) =>
                          ret' = FALSE /\ pc' = [hi |-> 0, lo |-> p + 1]
                    /\ (P[p + 1] = 6 /\ p + 2 < Len(P)) =>
                          ret' = TRUE /\ pc' = [hi |-> 0, lo |-> p + 3]
                    /\ (P[p + 1] = 9 /\ p + 1 < Len(P)) =>
                          ret' = TRUE /\ pc' = [hi |-> 0, lo |-> p + 2 + registers[P[p + 2]]]
                    /\ (P[p + 1] = 1 /\ p + 3 >= Len(P)) => panicked' = "program_index"
            /\ (p = Len(program) /\ Len(Entered(line)) = 4) =>
                  pc'.lo = Len(P) - 1]_vars

\* the one line "06 00 01 00" has been entered: the MOV is executed, the
\* HLT behind it is pending
C20_Witness ==
    /\ Len(command_buffer) = 1
    /\ called = "run_once"
    /\ ret = TRUE
    /\ program = <<6, 0, 1, 0>>
    /\ pc = [hi |-> 0, lo |-> 3]
====
